---- MODULE Spec2Model ----
(***************************************************************************)
(* Model of oksent-dev/decision_tree: class DecisionTree of                *)
(* src/lib/decision_tree.py (load_data, the four frequency tables, the     *)
(* gain-ratio statistics and the recursive _build_tree) and of main() of   *)
(* src/main.py, which constructs one DecisionTree and loads one file.      *)
(*                                                                         *)
(* Conventions.                                                            *)
(*  - A file is the sequence of its rows, a row the sequence of its        *)
(*    comma-separated fields (what line.strip().split(",") returns: never  *)
(*    empty).                                                              *)
(*  - Python lists are sequences; Python indices are 0-based and are kept  *)
(*    0-based (At(s, i) is s[i]).                                          *)
(*  - A dict is the sequence of its items [key, val] in insertion order,   *)
(*    which is the order Python iterates it in.                            *)
(*  - None is -1 for an attribute index, "None" for a decision, 0 for a    *)
(*    node reference, <<>> for tree_root.                                  *)
(*  - The anytree object graph is an arena: the sequence of the nodes in   *)
(*    creation order, a node's parent being an index into it.  A parent's  *)
(*    children are ordered by creation, as NodeMixin attaches them.        *)
(*  - Floats: an entropy is the exact rational num/den of thousandths of   *)
(*    a bit, math.log2 being tabulated in thousandths.                     *)
(***************************************************************************)
EXTENDS Integers, Sequences, FiniteSets, TLC

\* ---------------------------------------------------------------- bounds

\* Rows of a file of up to two attribute columns loaded by main().
MaxRows == 4

\* Rows of a file of three attribute columns loaded by main().
MaxWideRows == 3

NarrowAttrs == 0 .. 2

WideAttrs == {3}

\* Rows and fields per row of the files a caller reloads one instance with.
ReloadMaxRows == 2

ReloadMaxFields == 2

\* Nesting depth at which the interpreter raises RecursionError (1000 in
\* CPython, scaled down).
RecursionLimit == 8

Values == {"a", "b"}

Labels == {"yes", "no"}

\* ------------------------------------------------------- python helpers

At(s, i) == s[i + 1]

Range(s) == {s[k] : k \in DOMAIN s}

RECURSIVE SumSeq(_)
SumSeq(s) == IF s = <<>> THEN 0 ELSE s[1] + SumSeq(Tail(s))

\* dict.keys() and dict.values(), in insertion order.
Keys(dict) == [k \in DOMAIN dict |-> dict[k].key]

Vals(dict) == [k \in DOMAIN dict |-> dict[k].val]

HasKey(dict, key) == \E k \in DOMAIN dict : dict[k].key = key

\* dict[key]
Get(dict, key) == dict[CHOOSE k \in DOMAIN dict : dict[k].key = key].val

\* dict[key] = dict.get(key, 0) + 1
Increment(dict, key) ==
    IF HasKey(dict, key)
    THEN [k \in DOMAIN dict |->
            IF dict[k].key = key
            THEN [key |-> key, val |-> dict[k].val + 1]
            ELSE dict[k]]
    ELSE Append(dict, [key |-> key, val |-> 1])

\* The dict of occurrence counts of the items of a list, each key inserted
\* when first met.
RECURSIVE CountItems(_)
CountItems(s) ==
    IF s = <<>> THEN <<>>
    ELSE Increment(CountItems(SubSeq(s, 1, Len(s) - 1)), s[Len(s)])

\* ------------------------------------------------------------ load_data

\* self.attributes = [row[:-1] for row in self.data]
AttributesOf(d) == [k \in DOMAIN d |-> SubSeq(d[k], 1, Len(d[k]) - 1)]

\* self.decisions = [row[-1] for row in self.data]
DecisionsOf(d) == [k \in DOMAIN d |-> d[k][Len(d[k])]]

\* _count_unique_attributes_values raises IndexError: self.attributes[0] of an
\* empty list, or row[i] of a row with fewer attributes than the first row.
CountRaisesIndexError(attrs) ==
    \/ attrs = <<>>
    \/ \E k \in DOMAIN attrs : Len(attrs[k]) < Len(attrs[1])

\* The column of attribute i, for i in range(len(self.attributes[0])).
Column(attrs, i) == [k \in DOMAIN attrs |-> At(attrs[k], i)]

_count_unique_attributes_values(attrs) ==
    [j \in 1 .. Len(attrs[1]) |->
        [key |-> j - 1, val |-> Cardinality(Range(Column(attrs, j - 1)))]]

\* Off by one: the first row is left out of the counts.
_count_value_occurrences_skip_first(attrs) ==
    [j \in 1 .. Len(attrs[1]) |->
        [key |-> j - 1, val |-> CountItems(Tail(Column(attrs, j - 1)))]]

_count_value_occurrences(attrs) ==
    [j \in 1 .. Len(attrs[1]) |->
        [key |-> j - 1, val |-> CountItems(Column(attrs, j - 1))]]

_calculate_decision_counts(decs) == CountItems(decs)

\* The decisions of the rows whose attribute i is value, in row order.
RECURSIVE DecisionsWhere(_, _, _)
DecisionsWhere(col, decs, value) ==
    IF col = <<>> THEN <<>>
    ELSE (IF col[1] = value THEN <<decs[1]>> ELSE <<>>)
             \o DecisionsWhere(Tail(col), Tail(decs), value)

_calculate_attribute_decision_counts(attrs, decs) ==
    [j \in 1 .. Len(attrs[1]) |->
        [key |-> j - 1,
         val |-> LET col == Column(attrs, j - 1)
                     seen == Keys(CountItems(col))
                 IN [v \in DOMAIN seen |->
                        [key |-> seen[v],
                         val |-> CountItems(DecisionsWhere(col, decs, seen[v]))]]]]

\* ----------------------------------------------------------- statistics

\* A float, as the rational num/den (den > 0).
Rat(n, d) == [num |-> n, den |-> d]

RatIsZero(x) == x.num = 0

RatSub(x, y) ==
    IF x.den = y.den THEN Rat(x.num - y.num, x.den)
    ELSE Rat(x.num * y.den - y.num * x.den, x.den * y.den)

\* x / y for y > 0
RatDiv(x, y) ==
    IF x.den = y.den THEN Rat(x.num, y.num)
    ELSE Rat(x.num * y.den, x.den * y.num)

\* gain >= best_gain: a tie replaces the best so far.
GainExceedsOrTies(gain, best_gain) ==
    gain.num * best_gain.den >= best_gain.num * gain.den

\* gain > best_gain
GainExceeds(gain, best_gain) ==
    gain.num * best_gain.den > best_gain.num * gain.den

\* math.log2(n) in thousandths, for a count n >= 1.
Log2Thousandths == <<0, 1000, 1585, 2000, 2322, 2585, 2807, 3000>>

\* c * log2(c) in thousandths; nothing for c = 0 (if probability > 0).
CLog2C(c) == IF c = 0 THEN 0 ELSE c * Log2Thousandths[c]

\* -sum (c/T) log2 (c/T) = (T log2 T - sum c log2 c) / T
_calculate_entropy_from_counts(decision_counts) ==
    LET counts == Vals(decision_counts)
        total == SumSeq(counts)
    IN IF total = 0 THEN Rat(0, 1)
       ELSE Rat(CLog2C(total) - SumSeq([k \in DOMAIN counts |-> CLog2C(counts[k])]),
                total)

calculate_entropy(self) == _calculate_entropy_from_counts(self.decision_counts)

\* sum over the values of (sum(decision_counts) / total) * value_entropy; each
\* term is the numerator of value_entropy over total.
calculate_conditional_entropy(self, attribute_index) ==
    LET total == Len(self.decisions)
        items == Get(self.attribute_decision_counts, attribute_index)
    IN Rat(SumSeq([k \in DOMAIN items |->
                     _calculate_entropy_from_counts(items[k].val).num]),
           total)

calculate_information_gain(self, attribute_index) ==
    RatSub(calculate_entropy(self),
           calculate_conditional_entropy(self, attribute_index))

calculate_split_information(self, attribute_index) ==
    _calculate_entropy_from_counts(Get(self.value_occurrences, attribute_index))

calculate_gain_ratio(self, attribute_index) ==
    LET information_gain == calculate_information_gain(self, attribute_index)
        split_info == calculate_split_information(self, attribute_index)
    IN IF RatIsZero(split_info) THEN Rat(0, 1)
       ELSE RatDiv(information_gain, split_info)

\* The instance after the four tables of load_data are computed from d.
SelfOf(d) ==
    LET attrs == AttributesOf(d)
        decs == DecisionsOf(d)
    IN [data |-> d,
        attributes |-> attrs,
        decisions |-> decs,
        unique_attributes_values |-> _count_unique_attributes_values(attrs),
        value_occurrences |-> _count_value_occurrences(attrs),
        decision_counts |-> _calculate_decision_counts(decs),
        attribute_decision_counts |->
            _calculate_attribute_decision_counts(attrs, decs)]

\* ---------------------------------------------------------- _build_tree

\* The distinct items of a list in the order they are first met: the order
\* set(decisions) inserts them in.
FirstSeen(s) == Keys(CountItems(s))

Injective(s) == \A j, k \in DOMAIN s : s[j] = s[k] => j = k

InsertionOrders ==
    {s \in UNION {[1 .. n -> Labels] : n \in 1 .. Cardinality(Labels)} :
        Injective(s)}

\* The order a set of strings iterates in is fixed by the interpreter's string
\* hash secret (drawn when the process starts) and the insertion order: any
\* map from insertion orders to permutations.
SetOrders ==
    {h \in [InsertionOrders -> InsertionOrders] :
        \A s \in InsertionOrders : Len(h[s]) = Len(s) /\ Range(h[s]) = Range(s)}

\* decisions.count(x)
CountOf(decisions, x) == Cardinality({k \in DOMAIN decisions : decisions[k] = x})

\* The least frequent label: min for max.
least_frequent(set_order, decisions) ==
    LET order == set_order[FirstSeen(decisions)]
        k == CHOOSE k \in DOMAIN order :
                /\ \A j \in DOMAIN order :
                      CountOf(decisions, order[j]) >= CountOf(decisions, order[k])
                /\ \A j \in 1 .. k - 1 :
                      CountOf(decisions, order[j]) > CountOf(decisions, order[k])
    IN order[k]

\* max(set(decisions), key=decisions.count): the first item of the set's
\* iteration order with the greatest count.
majority_label(set_order, decisions) ==
    LET order == set_order[FirstSeen(decisions)]
        k == CHOOSE k \in DOMAIN order :
                /\ \A j \in DOMAIN order :
                      CountOf(decisions, order[j]) <= CountOf(decisions, order[k])
                /\ \A j \in 1 .. k - 1 :
                      CountOf(decisions, order[j]) < CountOf(decisions, order[k])
    IN order[k]

\* Line 148 with self.decisions for decisions: the majority of the whole
\* dataset.
empty_branch_majority_global(self, set_order, decisions) ==
    majority_label(set_order, self.decisions)

\* Line 148, in the loop of the call whose rows' decisions are decisions.
empty_branch_majority(self, set_order, decisions) ==
    majority_label(set_order, decisions)

\* len(set(decisions)) == 1 taken for len(decisions) == 1
is_single_row(decisions) == Len(decisions) = 1

\* len(set(decisions)) == 1
is_pure(decisions) == Cardinality(Range(decisions)) = 1

\* The loop of lines 121-126 over the first k items of
\* self.unique_attributes_values: best_attr (-1 for None), best_gain, and the
\* gain ratios evaluated, in order.
RECURSIVE SelectBest(_, _, _)
SelectBest(self, used_attributes, k) ==
    IF k = 0
    THEN [best_attr |-> -1, best_gain |-> Rat(-1, 1), gains |-> <<>>]
    ELSE LET before == SelectBest(self, used_attributes, k - 1)
             attr == self.unique_attributes_values[k].key
             gain == calculate_gain_ratio(self, attr)
         IN IF attr \in used_attributes THEN before
            ELSE [best_attr |-> IF GainExceeds(gain, before.best_gain)
                                THEN attr ELSE before.best_attr,
                  best_gain |-> IF GainExceeds(gain, before.best_gain)
                                THEN gain ELSE before.best_gain,
                  gains |-> Append(before.gains, [attr |-> attr, gain |-> gain])]

\* used_attributes passed on unchanged: best_attr forgotten.
child_used_forgets(used_attributes, best_attr) == used_attributes

\* used_attributes | {best_attr}
child_used(used_attributes, best_attr) == used_attributes \union {best_attr}

\* DecisionTreeNode(...): branch is the value the parent prefixes to the name
\* ("" until then); by is the call of _build_tree that constructed the node.
Node(attribute_index, decision, parent, by) ==
    [attribute_index |-> attribute_index, decision |-> decision,
     parent |-> parent, branch |-> "", by |-> by]

\* The record of one call of _build_tree, kept as it returns: its arguments, the
\* branch it took (kind: "pure", "majority" or "attribute"), the gain ratios
\* it evaluated, the attribute it chose and the node it returned.
Call(data_indices, used_attributes, parent, depth, kind, sel, node) ==
    [data_indices |-> data_indices, used_attributes |-> used_attributes,
     parent |-> parent, depth |-> depth, kind |-> kind,
     gains |-> sel.gains, best_attr |-> sel.best_attr, node |-> node]

NoSelection == [best_attr |-> -1, best_gain |-> Rat(-1, 1), gains |-> <<>>]

\* _build_tree(data_indices, used_attributes, parent) at nesting depth depth,
\* on the arena and call log b; BuildBranches is its loop of lines 138-153 from
\* the k-th value of self.value_occurrences[best_attr] on.
RECURSIVE _build_tree(_, _, _, _, _, _, _), BuildBranches(_, _, _, _, _, _, _, _, _, _)
_build_tree(self, set_order, data_indices, used_attributes, parent, depth, b) ==
    LET decisions == [k \in DOMAIN data_indices |-> At(self.decisions, data_indices[k])]
        id == Len(b.nodes) + 1
        call == Len(b.calls) + 1
        sel == SelectBest(self, used_attributes, Len(self.unique_attributes_values))
    IN IF b.error # "" THEN b
       ELSE IF depth > RecursionLimit THEN [b EXCEPT !.error = "RecursionError"]
       ELSE IF is_pure(decisions)
       THEN [b EXCEPT
               !.nodes = Append(@, Node(-1, decisions[1], parent, call)),
               !.calls = Append(@, Call(data_indices, used_attributes, parent,
                                        depth, "pure", NoSelection, id))]
       ELSE IF sel.best_attr = -1
       THEN [b EXCEPT
               !.nodes = Append(@, Node(-1, majority_label(set_order, decisions),
                                        parent, call)),
               !.calls = Append(@, Call(data_indices, used_attributes, parent,
                                        depth, "majority", sel, id))]
       ELSE BuildBranches(self, set_order, data_indices, used_attributes, depth,
                          id, call, sel.best_attr, 1,
                          [b EXCEPT
                             !.nodes = Append(@, Node(sel.best_attr, "None",
                                                      parent, call)),
                             !.calls = Append(@, Call(data_indices, used_attributes,
                                                      parent, depth, "attribute",
                                                      sel, id))])

BuildBranches(self, set_order, data_indices, used_attributes, depth, node, call, best_attr, k, b) ==
    LET values == Keys(Get(self.value_occurrences, best_attr))
        value == values[k]
        decisions == [j \in DOMAIN data_indices |-> At(self.decisions, data_indices[j])]
        subset_indices ==
            SelectSeq(data_indices,
                      LAMBDA i : At(At(self.attributes, i), best_attr) = value)
        child == Len(b.nodes) + 1
        built == _build_tree(self, set_order, subset_indices,
                             child_used(used_attributes, best_attr),
                             node, depth + 1, b)
    IN IF k > Len(values) \/ b.error # "" THEN b
       ELSE BuildBranches(self, set_order, data_indices, used_attributes, depth,
                          node, call, best_attr, k + 1,
                          IF subset_indices # <<>>
                          THEN IF built.error # "" THEN built
                               ELSE [built EXCEPT !.nodes[child].branch = value]
                          ELSE [b EXCEPT !.nodes =
                                  Append(@, [Node(-1,
                                                  empty_branch_majority(self, set_order,
                                                                        decisions),
                                                  node, call)
                                             EXCEPT !.branch = value])])

\* self._build_tree() of line 60: every row, no attribute used, no parent.
BuildRoot(self, set_order) ==
    _build_tree(self, set_order, [k \in DOMAIN self.decisions |-> k - 1], {}, 0, 1,
                [nodes |-> <<>>, calls |-> <<>>, error |-> ""])

\* ----------------------------------------------------------------- state

VARIABLES
    set_order,                         \* how this process iterates a set of strings
    data, attributes, decisions,       \* the rows of the file most recently read
    unique_attributes_values, value_occurrences,
    decision_counts, attribute_decision_counts,
    tree_root,                         \* the arena of the tree; <<>> is None
    calls,                             \* the calls of _build_tree of the last load_data
    raised,                            \* the exception the last load_data ended with, or ""
    pc,                                \* "new", then "loaded" or "crashed" (main),
                                       \* "kept" (a caller), "rerun" (the second process)
    prev                               \* the tree the process before this one built

vars == <<set_order, data, attributes, decisions, unique_attributes_values,
          value_occurrences, decision_counts, attribute_decision_counts,
          tree_root, calls, raised, pc, prev>>

\* A process starts and constructs a DecisionTree (__init__).
Init ==
    /\ set_order \in SetOrders
    /\ data = <<>>
    /\ attributes = <<>>
    /\ decisions = <<>>
    /\ unique_attributes_values = <<>>
    /\ value_occurrences = <<>>
    /\ decision_counts = <<>>
    /\ attribute_decision_counts = <<>>
    /\ tree_root = <<>>
    /\ calls = <<>>
    /\ raised = ""
    /\ pc = "new"
    /\ prev = [run |-> FALSE, tree_root |-> <<>>]

\* load_data(file_name) on a file holding the rows file, in a process whose
\* sets of strings iterate as order says.  An exception leaves the fields
\* assigned before it.
load_data(file, order) ==
    LET self == SelfOf(file)
        built == BuildRoot(self, order)
    IN /\ data' = file
       /\ attributes' = AttributesOf(file)
       /\ decisions' = DecisionsOf(file)
       /\ IF CountRaisesIndexError(AttributesOf(file))
          THEN /\ raised' = "IndexError"
               /\ calls' = <<>>
               /\ UNCHANGED <<unique_attributes_values, value_occurrences,
                              decision_counts, attribute_decision_counts, tree_root>>
          ELSE /\ unique_attributes_values' = self.unique_attributes_values
               /\ value_occurrences' = self.value_occurrences
               /\ decision_counts' = self.decision_counts
               /\ attribute_decision_counts' = self.attribute_decision_counts
               /\ raised' = built.error
               /\ calls' = built.calls
               /\ tree_root' = IF built.error = "" THEN built.nodes ELSE tree_root

\* The rows of n attribute values and a decision.
Rows(n) ==
    {r \in [1 .. n + 1 -> Values \union Labels] :
        /\ r[n + 1] \in Labels
        /\ \A k \in 1 .. n : r[k] \in Values}

\* Values are opaque tokens: renaming the values of a column changes no count
\* and no order, so a file stands for its renamings and the first row of a
\* file of main() takes the value "a" in every column.
FirstRows(n) == {r \in Rows(n) : \A k \in 1 .. n : r[k] = "a"}

\* The files of m rows of n attributes each.
FilesOf(m, n) ==
    {<<first>> \o rest : first \in FirstRows(n), rest \in [1 .. m - 1 -> Rows(n)]}

\* The files main() is run on: the empty file, and the files whose rows have
\* the same number of attributes.
Files ==
    {<<>>}
    \union UNION {FilesOf(m, n) : m \in 1 .. MaxRows, n \in NarrowAttrs}
    \union UNION {FilesOf(m, n) : m \in 1 .. MaxWideRows, n \in WideAttrs}

\* The files a caller loads into one instance: rows of any number of fields.
ReloadFiles ==
    UNION {[1 .. m -> UNION {Rows(n) : n \in 0 .. ReloadMaxFields - 1}] :
              m \in 0 .. ReloadMaxRows}

\* main(): dt = DecisionTree(); dt.load_data(file); an exception ends it.
Main ==
    /\ pc = "new"
    /\ \E file \in Files : load_data(file, set_order)
    /\ pc' = IF raised' = "" THEN "loaded" ELSE "crashed"
    /\ UNCHANGED <<set_order, prev>>

\* A caller that keeps its DecisionTree and calls load_data again, whether
\* the call before returned or raised.
LoadAgain ==
    /\ pc \in {"new", "kept"}
    /\ \E file \in ReloadFiles : load_data(file, set_order)
    /\ pc' = "kept"
    /\ UNCHANGED <<set_order, prev>>

\* The program is run once more on the file it last loaded: a new process,
\* with its own hash secret, constructs a DecisionTree and loads the file.
RunAgain ==
    /\ pc = "kept"
    /\ raised = ""
    /\ prev' = [run |-> TRUE, tree_root |-> tree_root]
    /\ \E order \in SetOrders :
          /\ set_order' = order
          /\ load_data(data, order)
    /\ pc' = "rerun"

Next == Main

Spec == Init /\ [][Next]_vars

NextCaller == LoadAgain \/ RunAgain

SpecCaller == Init /\ [][NextCaller]_vars

\* ------------------------------------------------------- reading a state

IsAttributeNode(n) == tree_root[n].attribute_index # -1

IsLeaf(n) == tree_root[n].attribute_index = -1 /\ tree_root[n].decision # "None"

Children(n) == {c \in DOMAIN tree_root : tree_root[c].parent = n}

\* The proper ancestors of node n (a parent is created before its children).
RECURSIVE Ancestors(_)
Ancestors(n) ==
    IF tree_root[n].parent = 0 THEN {}
    ELSE {tree_root[n].parent} \union Ancestors(tree_root[n].parent)

\* The attribute indices of the loaded dataset.
AttributeIndices == IF data = <<>> THEN {} ELSE 0 .. Len(data[1]) - 2

\* The values attribute attr takes in the rows of indices rows, read from data.
ValuesIn(attr, rows) == {At(At(data, rows[k]), attr) : k \in DOMAIN rows}

AllRows == [k \in DOMAIN data |-> k - 1]

\* The decisions of the rows a call was given, read from data.
DecisionsIn(rows) ==
    [k \in DOMAIN rows |-> LET row == At(data, rows[k]) IN row[Len(row)]]

\* label is among the most frequent items of decs.
MostFrequent(label, decs) ==
    /\ label \in Range(decs)
    /\ \A other \in Range(decs) : CountOf(decs, other) <= CountOf(decs, label)

RatGreater(x, y) == x.num * y.den > y.num * x.den

\* The gain ratio of attr with every table recomputed over the rows of indices
\* rows alone.
SubsetGainRatio(attr, rows) ==
    calculate_gain_ratio(SelfOf([k \in DOMAIN rows |-> At(data, rows[k])]), attr)

Ragged(file) == \E j, k \in DOMAIN file : Len(file[j]) # Len(file[k])

\* ---------------------------------------------------------------- claims

\* C1: in every call of _build_tree on a subset that is not pure, the attribute
\* chosen has the highest gain ratio, among the unused attributes, of the gain
\* ratios computed over the rows of that subset.
C1_ChosenBySubsetGainRatio ==
    \A c \in DOMAIN calls :
        calls[c].kind = "attribute" =>
            \A attr \in AttributeIndices \ calls[c].used_attributes :
                ~RatGreater(SubsetGainRatio(attr, calls[c].data_indices),
                            SubsetGainRatio(calls[c].best_attr, calls[c].data_indices))

\* C2: every attribute node, at any depth, has exactly one child per distinct
\* value its attribute takes in the whole loaded dataset, and no other child;
\* their number is unique_attributes_values[attr].
C2_OneChildPerDatasetValue ==
    pc = "loaded" =>
        \A n \in DOMAIN tree_root :
            IsAttributeNode(n) =>
                LET attr == tree_root[n].attribute_index
                    values == ValuesIn(attr, AllRows)
                IN /\ {tree_root[c].branch : c \in Children(n)} = values
                   /\ Cardinality(Children(n)) = Cardinality(values)
                   /\ Cardinality(Children(n)) = Get(unique_attributes_values, attr)

\* An attribute node below the root whose own rows lack a value of its
\* attribute, and which has a child for that value all the same.
C2_Witness ==
    /\ pc = "loaded"
    /\ \E n \in DOMAIN tree_root :
          /\ IsAttributeNode(n)
          /\ tree_root[n].parent # 0
          /\ \E c \in Children(n) :
                tree_root[c].branch \notin
                    ValuesIn(tree_root[n].attribute_index,
                             calls[tree_root[n].by].data_indices)

\* C3: a call of _build_tree on a non-empty subset whose rows all carry one
\* label returns a childless decision leaf with that label, whatever
\* used_attributes is and without evaluating a gain ratio; a dataset of one
\* row or of one label yields a tree that is that leaf.
C3_PureSubsetYieldsLeaf ==
    /\ \A c \in DOMAIN calls :
          LET decs == DecisionsIn(calls[c].data_indices)
              n == calls[c].node
          IN (decs # <<>> /\ \A k \in DOMAIN decs : decs[k] = decs[1]) =>
                /\ calls[c].kind = "pure"
                /\ calls[c].gains = <<>>
                /\ tree_root[n].by = c
                /\ IsLeaf(n)
                /\ tree_root[n].decision = decs[1]
                /\ tree_root[n].parent = calls[c].parent
                /\ Children(n) = {}
    /\ (pc = "loaded" /\ \A k \in DOMAIN decisions : decisions[k] = decisions[1]) =>
          /\ Len(tree_root) = 1
          /\ IsLeaf(1)
          /\ tree_root[1].decision = decisions[1]

\* A pure subset of several rows reached with an attribute already used and
\* another still unused.
C3_Witness ==
    /\ pc = "loaded"
    /\ \E c \in DOMAIN calls :
          /\ calls[c].kind = "pure"
          /\ calls[c].used_attributes # {}
          /\ ~(AttributeIndices \subseteq calls[c].used_attributes)
          /\ Len(calls[c].data_indices) >= 2

\* C4: for every attribute node and every value of its attribute that no row
\* of the node's subset has, the child for that value is a decision leaf the
\* parent's call created itself, labelled with a most frequent label of the
\* parent's subset; and no call of _build_tree has an empty data_indices.
C4_EmptyBranchIsParentMajorityLeaf ==
    /\ \A c \in DOMAIN calls : calls[c].data_indices # <<>>
    /\ pc = "loaded" =>
          \A n \in DOMAIN tree_root :
              IsAttributeNode(n) =>
                  LET rows == calls[tree_root[n].by].data_indices
                      attr == tree_root[n].attribute_index
                  IN \A value \in ValuesIn(attr, AllRows) \ ValuesIn(attr, rows) :
                        \E k \in Children(n) :
                            /\ tree_root[k].branch = value
                            /\ IsLeaf(k)
                            /\ Children(k) = {}
                            /\ tree_root[k].by = tree_root[n].by
                            /\ MostFrequent(tree_root[k].decision, DecisionsIn(rows))

\* An empty branch under a node whose subset has a strict majority label.
C4_Witness ==
    /\ pc = "loaded"
    /\ \E n \in DOMAIN tree_root :
          /\ IsAttributeNode(n)
          /\ LET rows == calls[tree_root[n].by].data_indices
                 decs == DecisionsIn(rows)
             IN /\ \E x, y \in Range(decs) : CountOf(decs, x) > CountOf(decs, y)
                /\ \E k \in Children(n) :
                      /\ tree_root[k].by = tree_root[n].by
                      /\ tree_root[k].branch \notin
                            ValuesIn(tree_root[n].attribute_index, rows)

\* C5: a call of _build_tree on a subset of two or more distinct labels with
\* every attribute index in used_attributes returns a childless decision leaf
\* labelled with a most frequent label of that subset; the call returns a
\* majority leaf in no other situation.
C5_ExhaustedAttributesYieldMajority ==
    \A c \in DOMAIN calls :
        LET decs == DecisionsIn(calls[c].data_indices)
            n == calls[c].node
        IN /\ calls[c].kind = "majority" <=>
                 /\ Cardinality(Range(decs)) >= 2
                 /\ AttributeIndices \subseteq calls[c].used_attributes
           /\ calls[c].kind = "majority" =>
                 /\ tree_root[n].by = c
                 /\ IsLeaf(n)
                 /\ Children(n) = {}
                 /\ MostFrequent(tree_root[n].decision, decs)

\* A majority leaf below the root over a subset with a strict majority that
\* is not the majority of the parent's subset alone.
C5_Witness ==
    /\ pc = "loaded"
    /\ \E c \in DOMAIN calls :
          LET decs == DecisionsIn(calls[c].data_indices)
          IN /\ calls[c].kind = "majority"
             /\ calls[c].used_attributes # {}
             /\ \E x, y \in Range(decs) : CountOf(decs, x) > CountOf(decs, y)

\* C6: no root-to-leaf path has two attribute nodes testing the same
\* attribute index; a path has at most as many attribute nodes as the dataset
\* has attributes, and the recursion ends (never by RecursionError).
C6_NoAttributeTwiceOnPath ==
    /\ raised # "RecursionError"
    /\ \A c \in DOMAIN calls : calls[c].depth <= Cardinality(AttributeIndices) + 1
    /\ \A n \in DOMAIN tree_root :
          IsAttributeNode(n) =>
              /\ \A m \in Ancestors(n) :
                    tree_root[m].attribute_index # tree_root[n].attribute_index
              /\ Cardinality(Ancestors(n)) + 1 <= Cardinality(AttributeIndices)

\* A path of three attribute nodes.
C6_Witness ==
    /\ pc = "loaded"
    /\ \E n \in DOMAIN tree_root :
          IsAttributeNode(n) /\ Cardinality(Ancestors(n)) = 2

\* C7: the program run twice on the identical dataset builds identical trees,
\* the labels of leaves decided by a tie included.
C7_SameTreeFromSameFile ==
    prev.run => tree_root = prev.tree_root

\* C8: the unused attributes are scanned in ascending index order, and of
\* those sharing the highest gain ratio the smallest index is chosen.
C8_TieGoesToSmallestIndex ==
    \A c \in DOMAIN calls :
        calls[c].kind = "attribute" =>
            LET gains == calls[c].gains
                highest == {k \in DOMAIN gains :
                              \A j \in DOMAIN gains :
                                  ~RatGreater(gains[j].gain, gains[k].gain)}
            IN /\ \A j, k \in DOMAIN gains : j < k => gains[j].attr < gains[k].attr
               /\ {gains[k].attr : k \in DOMAIN gains}
                     = AttributeIndices \ calls[c].used_attributes
               /\ \E k \in highest :
                     /\ calls[c].best_attr = gains[k].attr
                     /\ \A j \in highest : gains[k].attr <= gains[j].attr

\* A call below the root in which two unused attributes share the highest
\* gain ratio.
C8_Witness ==
    /\ pc = "loaded"
    /\ \E c \in DOMAIN calls :
          /\ calls[c].kind = "attribute"
          /\ calls[c].used_attributes # {}
          /\ \E j, k \in DOMAIN calls[c].gains :
                /\ j # k
                /\ calls[c].gains[j].gain.num * calls[c].gains[k].gain.den
                      = calls[c].gains[k].gain.num * calls[c].gains[j].gain.den
                /\ \A i \in DOMAIN calls[c].gains :
                      ~RatGreater(calls[c].gains[i].gain, calls[c].gains[j].gain)

\* C9: load_data on a file in which some row has a different number of fields
\* than another fails with an error and builds no tree.
C9_RaggedFileRaises ==
    Ragged(data) => raised # "" /\ calls = <<>>

\* C10: after any sequence of load_data calls on one instance, the tables and
\* tree_root are those of the dataset loaded last, and a load that failed
\* leaves no tree and no table of an earlier load.
C10_NothingOfAnEarlierLoad ==
    pc = "kept" =>
        IF raised = ""
        THEN /\ unique_attributes_values = SelfOf(data).unique_attributes_values
             /\ value_occurrences = SelfOf(data).value_occurrences
             /\ decision_counts = SelfOf(data).decision_counts
             /\ attribute_decision_counts = SelfOf(data).attribute_decision_counts
             /\ tree_root = BuildRoot(SelfOf(data), set_order).nodes
        ELSE /\ tree_root = <<>>
             /\ unique_attributes_values = <<>>
             /\ value_occurrences = <<>>
             /\ decision_counts = <<>>
             /\ attribute_decision_counts = <<>>

====
